---- MODULE Spec2Model ----
(***************************************************************************)
(* Model of the AD10 SRT engine (src/script.py): the watchdog loop around  *)
(* one transport process, the AudioMonitor thread, the frame loop with its *)
(* three trigger sources, and the clip scheduler.                          *)
(*                                                                         *)
(* Stream time is counted in ticks of 1/FPS second: the frame loop's       *)
(* t = frame_id / FPS is the frame number, and a stored timestamp          *)
(* (ball_start, last_ocr_time) is the frame number it was taken at.  The   *)
(* debounce comparisons are made on IEEE doubles in the source; FloatGT    *)
(* computes them with the rounding of the division and the subtraction.    *)
(* Wall-clock time (time.time()) is counted in whole seconds.              *)
(* Volumes are in percent of the loudness baseline (norm_vol * 100).       *)
(***************************************************************************)
EXTENDS Integers, Sequences, FiniteSets, TLC

\* ---------------------------------------------------------------- config
FPS == 25
AUDIO_THRESH == 65
AUDIO_SUSTAIN == 3
SCENE_THRESH == 12
MASSIVE_THRESH == 20
RUNUP_SEC == 6
POST_SEC == 12
BALL_MIN == 8
BALL_MAX == 25
OCR_INTERVAL_TICKS == 10
AUDIO_GAP == 10
OCR_GAP == 5
MOTION_GAP == 8
IDLE_TIMEOUT == 10
GRACE_SEC == 2
COOLDOWN_SEC == 2
VOLUME_CLAMP == 100
SETTLE_SEC == 15
NEW_SESSION_SEC == 5

\* ---------------------------------------------------------------- bounds
\* frames read in the first session, and in a session started by a relaunch
MaxFrames == 252
MaxLaterFrames == 2
\* frames per session when wall-clock time is modelled
MaxTimedFrames == 2
\* transport launches of one engine
MaxSessions == 2
\* wall-clock seconds
MaxTime == 13
\* scripted audio feeds: quiet chunks followed by loud chunks, and free feeds
MaxQuiet == 20
MaxLoud == 5
MaxFeed == 5
\* frames read in the first session when the clip jobs are followed
MaxJobFrames == 127
\* a live source: wall-clock seconds, and frames read in them
MaxLiveTime == 20
MaxLiveFrames == 501
\* the live scene shows its events in its first frames only
MaxEventFrames == 130
\* the host: engine processes started, and seconds on its clock
MaxPids == 3
MaxHostTime == 5
\* the worker: job files in the queue at once, and seconds it is watched for
MaxQueue == 2
MaxQueueTime == 1

Max(a, b) == IF a >= b THEN a ELSE b
Min(a, b) == IF a <= b THEN a ELSE b

RECURSIVE Pow2(_)
Pow2(n) == IF n = 0 THEN 1 ELSE 2 * Pow2(n - 1)

RECURSIVE Pow2Mod(_, _)
Pow2Mod(n, m) == IF n = 0 THEN 1 % m ELSE (2 * Pow2Mod(n - 1, m)) % m

\* ------------------------------------------------------- double arithmetic
\* The binary exponent of the double n / FPS (n >= 1): the e with
\* 2^e <= n / FPS < 2^(e+1).
RECURSIVE ExpoUp(_, _)
ExpoUp(n, e) == IF FPS * Pow2(e + 1) <= n THEN ExpoUp(n, e + 1) ELSE e

RECURSIVE ExpoDown(_, _)
ExpoDown(n, j) == IF FPS <= n * Pow2(j) THEN 0 - j ELSE ExpoDown(n, j + 1)

Expo(n) == IF n >= FPS THEN ExpoUp(n, 0) ELSE ExpoDown(n, 1)

\* The double n / FPS is a multiple of 2^-Ulp(n) (53-bit significand).
Ulp(n) == 52 - Expo(n)

\* Rounding error of the division n / FPS, to nearest, in units of
\* 1 / (FPS * 2^Ulp(n)): fl(n / FPS) = n / FPS + DivErr(n) / (FPS * 2^Ulp(n)).
DivErr(n) ==
    IF n = 0 THEN 0
    ELSE LET r == ((n % FPS) * Pow2Mod(Ulp(n), FPS)) % FPS
         IN  IF 2 * r < FPS THEN 0 - r ELSE FPS - r

\* Whether the significand of the double g / FPS is odd (round-half-even).
OddSignificand(g) ==
    ((g % (2 * FPS)) * Pow2Mod(Ulp(g), 2 * FPS) + DivErr(g)) % (2 * FPS) = FPS

\* fa / FPS - fb / FPS > g / FPS, evaluated in doubles as Python does:
\* both quotients rounded, the difference rounded, compared with the double
\* nearest to g / FPS.  fa >= fb >= 0, fa >= 1, g >= 1.
FloatGT(fa, fb, g) ==
    IF fa - fb # g THEN fa - fb > g
    ELSE LET ka == Ulp(fa)
             kb == IF fb = 0 THEN ka ELSE Ulp(fb)
             kg == Ulp(g)
             K  == Max(ka, kb)
             E  == DivErr(fa) * Pow2(K - ka) - DivErr(fb) * Pow2(K - kb)
             M  == Max(K, kg)
             N  == E * Pow2(M - K) - DivErr(g) * Pow2(M - kg)
             half == FPS * Pow2(M - kg)
         IN  \/ 2 * N > half
             \/ 2 * N = half /\ OddSignificand(g)


\* ------------------------------------------------------------------ state
VARIABLES
    pc,             \* where run_engine is
    reader,         \* the OCR reader exists (OCR_AVAILABLE)
    proc,           \* the transport process of the current session
    sessions,       \* transport launches so far
    now,            \* time.time(), whole seconds since the engine started
    frame_id, ball_start, last_ocr_time, prev_gray, last_data_time,
    mon_thread,     \* the AudioMonitor thread: "none", "alive", "dead", "stopped"
    running, trigger, sustain_count, current_volume,
    obs,            \* history: what the audio check of the last frame saw
    ocr_obs,        \* history: what the OCR check of the last frame did
    motion_obs,     \* history: the score the motion check of the last frame saw, or -1
    sigint,         \* history: a KeyboardInterrupt has been delivered
    short_at,       \* history: time.time() at the short read that ended the previous
                    \* session, until the frame loop runs again; otherwise -1
    jobs,           \* the cut_job threads started, in order
    recording,      \* record_ts: the launch that opened it last (0: none), the
                    \* wall second it was opened at and the frames written to it
    feed,           \* scripted audio: the volumes of the chunks the pipe delivers
    chunk_no,       \* scripted audio: full chunks read so far
    raised_at,      \* scripted audio: the chunk numbers at which the trigger was raised
    host_now,       \* server and worker: time.time() on the host, whole seconds
    procs,          \* server: the engine processes launched by start_stream, by pid
    session_files,  \* server: sessions/<match>.json of each match, or NoFile
    answer,         \* server: the response of the last step, when it was an API call
    queue,          \* worker: the job files in the queue directory
    tmp_files,      \* worker: the temporary files in the output directories
    errors,         \* worker: the file names that have an error record
    finals,         \* worker: the file names that have a branded output
    wlast           \* worker: history, what the last step of the main loop did

engine_vars == <<pc, reader, proc, sessions, frame_id, ball_start, last_ocr_time,
                 prev_gray, last_data_time, obs, ocr_obs, motion_obs, sigint, short_at, jobs,
                 recording>>
monitor_vars == <<mon_thread, running, trigger, sustain_count, current_volume>>
script_vars == <<feed, chunk_no, raised_at>>
host_vars == <<host_now, procs, session_files, answer>>
worker_vars == <<queue, tmp_files, errors, finals, wlast>>
vars == <<engine_vars, monitor_vars, script_vars, now, host_vars, worker_vars>>

\* ---------------------------------------------------------- AudioMonitor
\* AudioMonitor.__init__
NewMonitor ==
    [running |-> TRUE, current_volume |-> 0, trigger |-> FALSE, sustain_count |-> 0]

\* AudioChunkStep without the reset of the counter on a quiet chunk.
AudioChunkStepNoQuietReset(m, v) ==
    LET vol  == Min(v, VOLUME_CLAMP)
        cnt  == IF vol > AUDIO_THRESH THEN m.sustain_count + 1 ELSE m.sustain_count
        fire == cnt >= AUDIO_SUSTAIN
    IN  [running        |-> m.running,
         current_volume |-> vol,
         trigger        |-> IF fire THEN TRUE ELSE m.trigger,
         sustain_count  |-> IF fire THEN 0 ELSE cnt,
         fired          |-> fire]

\* AudioChunkStep without the reset of the counter when the trigger is raised.
AudioChunkStepNoFireReset(m, v) ==
    LET vol  == Min(v, VOLUME_CLAMP)
        cnt  == IF vol > AUDIO_THRESH THEN m.sustain_count + 1 ELSE 0
        fire == cnt >= AUDIO_SUSTAIN
    IN  [running        |-> m.running,
         current_volume |-> vol,
         trigger        |-> IF fire THEN TRUE ELSE m.trigger,
         sustain_count  |-> cnt,
         fired          |-> fire]

\* One full chunk of normalised volume v through the body of AudioMonitor.run:
\* the fields after the chunk, and whether the chunk raised the trigger.
AudioChunkStep(m, v) ==
    LET vol  == Min(v, VOLUME_CLAMP)
        cnt  == IF vol > AUDIO_THRESH THEN m.sustain_count + 1 ELSE 0
        fire == cnt >= AUDIO_SUSTAIN
    IN  [running        |-> m.running,
         current_volume |-> vol,
         trigger        |-> IF fire THEN TRUE ELSE m.trigger,
         sustain_count  |-> IF fire THEN 0 ELSE cnt,
         fired          |-> fire]

Monitor ==
    [running |-> running, current_volume |-> current_volume, trigger |-> trigger,
     sustain_count |-> sustain_count]

MonitorReads == mon_thread = "alive" /\ running

\* The monitor reads a full chunk of volume v from its pipe.
AudioRead(v) ==
    /\ MonitorReads
    /\ LET m == AudioChunkStep(Monitor, v)
       IN  /\ current_volume' = m.current_volume
           /\ trigger' = m.trigger
           /\ sustain_count' = m.sustain_count
    /\ UNCHANGED <<mon_thread, running>>

\* A short or empty read: sleep 10 ms and read again.
AudioShortRead ==
    /\ MonitorReads
    /\ UNCHANGED vars

\* pipe.read (or the arithmetic) raises: the except branch leaves the loop.
AudioReadError ==
    /\ MonitorReads
    /\ mon_thread' = "dead"
    /\ UNCHANGED <<host_vars, worker_vars>>
    /\ UNCHANGED <<engine_vars, script_vars, now, running, trigger, sustain_count,
                   current_volume>>

\* The loop condition sees running = False.
AudioStop ==
    /\ mon_thread = "alive" /\ ~running
    /\ mon_thread' = "stopped"
    /\ UNCHANGED <<host_vars, worker_vars>>
    /\ UNCHANGED <<engine_vars, script_vars, now, running, trigger, sustain_count,
                   current_volume>>

\* Volumes a chunk can have while the engine runs.
Volumes == {0, 90}

\* The pipe delivers a chunk of any volume.
AudioChunk ==
    \E v \in Volumes :
        /\ AudioRead(v)
        /\ UNCHANGED <<host_vars, worker_vars>>
        /\ UNCHANGED <<engine_vars, script_vars, now>>

\* The pipe delivers the next chunk of the scripted feed.
ScriptedChunk ==
    /\ chunk_no < Len(feed)
    /\ AudioRead(feed[chunk_no + 1])
    /\ chunk_no' = chunk_no + 1
    /\ raised_at' = IF AudioChunkStep(Monitor, feed[chunk_no + 1]).fired
                    THEN Append(raised_at, chunk_no + 1) ELSE raised_at
    /\ UNCHANGED <<host_vars, worker_vars>>
    /\ UNCHANGED <<engine_vars, feed, now>>


\* ------------------------------------------------------------ OCR matching
\* Text is a sequence of characters.
SP == " "
OCR_KEYWORDS ==
    << <<"4">>, <<"6">>, <<"O","U","T">>, <<"W","I","C","K","E","T">>,
       <<"A","P","P","E","A","L">>, <<"R","E","V","I","E","W">>,
       <<"B","O","W","L","E","D">>, <<"C","A","U","G","H","T">>,
       <<"C","E","N","T","U","R","Y">> >>

NumericKeywords == {<<"4">>, <<"6">>}

Lower == <<"a","b","c","d","e","f","g","h","i","j","k","l","m",
           "n","o","p","q","r","s","t","u","v","w","x","y","z">>
UpperCase == <<"A","B","C","D","E","F","G","H","I","J","K","L","M",
               "N","O","P","Q","R","S","T","U","V","W","X","Y","Z">>

\* str.upper on one character
Upper(c) ==
    IF \E i \in 1..Len(Lower) : Lower[i] = c
    THEN UpperCase[CHOOSE i \in 1..Len(Lower) : Lower[i] = c]
    ELSE c

\* " ".join(res)
RECURSIVE Join(_)
Join(res) ==
    IF res = <<>> THEN <<>>
    ELSE IF Len(res) = 1 THEN res[1]
    ELSE res[1] \o <<SP>> \o Join(Tail(res))

\* " ".join(res).upper()
OcrText(res) == LET j == Join(res) IN [i \in 1..Len(j) |-> Upper(j[i])]

\* k in text (substring)
Contains(text, k) ==
    \E i \in 1..(Len(text) - Len(k) + 1) : SubSeq(text, i, i + Len(k) - 1) = k

\* KeywordHit without the whole-word test of the numeric keywords.
KeywordHitSubstring(text, k) == Contains(text, k)

\* The keyword loop accepts keyword k on this text.
KeywordHit(text, k) ==
    /\ Contains(text, k)
    /\ ~(k \in NumericKeywords /\ ~Contains(<<SP>> \o text \o <<SP>>, <<SP>> \o k \o <<SP>>))

\* The index of the keyword the loop breaks on, 0 when it ends without a break.
OcrMatch(text) ==
    IF \E i \in 1..Len(OCR_KEYWORDS) : KeywordHit(text, OCR_KEYWORDS[i])
    THEN CHOOSE i \in 1..Len(OCR_KEYWORDS) :
            /\ KeywordHit(text, OCR_KEYWORDS[i])
            /\ \A j \in 1..(i - 1) : ~KeywordHit(text, OCR_KEYWORDS[j])
    ELSE 0

\* What reader.readtext returns during a run of the engine: fragment lists.
OcrReadings ==
    { <<>>,
      << <<"1","4">> >>,
      << <<"4","1">> >>,
      << <<"4","5">> >>,
      << <<"6","4">> >>,
      << <<"1">>, <<"4">> >>,
      << <<"s","c","o","r","e">>, <<"4">>, <<"r","u","n","s">> >>,
      << <<"S","C","O","R","E"," ","4"," ","R","U","N","S">> >>,
      << <<"4","1">>, <<"o","u","t">> >>,
      << <<"N","O","T">>, <<"O","U","T">> >> }

\* ------------------------------------------------------------ clip scheduler
\* cut_ball: the arguments of the cut_job thread it starts (times in ticks).
CutBall(t1, t2, reason, wall) ==
    LET dur == Min(Max(t2 - t1, BALL_MIN * FPS), BALL_MAX * FPS)
    IN  [t1 |-> t1, t2 |-> t2 + dur, reason |-> reason, ts |-> wall]

\* StartJob with cut_job called in the caller's thread: it returns when the
\* job is over.
StartJobInline(args) ==
    args @@ [st |-> "ready", trims |-> 1, trim_rc |-> 0, verts |-> 1, vert_rc |-> 0]

\* threading.Thread(target=cut_job, args=..., daemon=True).start(): the job
\* is in its settle delay, nothing invoked yet.  st is "settle", then "saved"
\* (trim ended 0, before the vertical render) or "failed", then "ready"
\* ([VERTICAL READY] printed); "killed" when the process ended first.
StartJob(args) ==
    args @@ [st |-> "settle", trims |-> 0, trim_rc |-> 0 - 1, verts |-> 0, vert_rc |-> 0 - 1]

\* cut_job: the duration handed to the trim as -t.
CutJobDuration(job) == job.t2 - job.t1

\* The frame loop's call cut_ball(max(0, t - RUNUP_SEC), t + POST_SEC, reason)
\* at frame f; at and session record the frame and the session of the trigger.
Schedule(f, reason) ==
    StartJob(CutBall(Max(0, f - RUNUP_SEC * FPS), f + POST_SEC * FPS, reason, now))
        @@ [at |-> f, session |-> sessions]


\* ----------------------------------------------------------------- cut_job
\* The exit statuses of the trim and of the vertical render: 0 or not.
ExitStatuses == {0, 1}

\* AfterTrim with the vertical render started whatever the trim's status.
AfterTrimAlwaysRenders(rc) == "saved"

\* cut_job after subprocess.run of the trim ended with status rc: [CLIP SAVED]
\* and on to make_vertical, or the error print and the end of the job.
AfterTrim(rc) == IF rc = 0 THEN "saved" ELSE "failed"

\* make_vertical after subprocess.call of the render ended with status rc:
\* the status is dropped and [VERTICAL READY] printed.
AfterVertical(rc) == "ready"

\* cut_job of job i wakes from its settle delay and runs the trim.
JobTrim(i) ==
    /\ jobs[i].st = "settle"
    /\ \E rc \in ExitStatuses :
          jobs' = [jobs EXCEPT ![i].st = AfterTrim(rc),
                               ![i].trims = @ + 1,
                               ![i].trim_rc = rc]
    /\ UNCHANGED <<pc, reader, proc, sessions, frame_id, ball_start, last_ocr_time,
                   prev_gray, last_data_time, obs, ocr_obs, motion_obs, sigint,
                   short_at, monitor_vars, script_vars, now>>
    /\ UNCHANGED <<host_vars, worker_vars>>
    /\ UNCHANGED recording

\* cut_job of job i runs the trim once time.sleep(15) is over: the wall clock
\* has passed the second of the trigger by the settle delay.
JobTrimTimed(i) ==
    /\ now >= jobs[i].ts + SETTLE_SEC
    /\ JobTrim(i)

\* make_vertical of job i runs the vertical render and returns.
MakeVertical(i) ==
    /\ jobs[i].st = "saved"
    /\ \E rc \in ExitStatuses :
          jobs' = [jobs EXCEPT ![i].st = AfterVertical(rc),
                               ![i].verts = @ + 1,
                               ![i].vert_rc = rc]
    /\ UNCHANGED <<pc, reader, proc, sessions, frame_id, ball_start, last_ocr_time,
                   prev_gray, last_data_time, obs, ocr_obs, motion_obs, sigint,
                   short_at, monitor_vars, script_vars, now>>
    /\ UNCHANGED <<host_vars, worker_vars>>
    /\ UNCHANGED recording

\* The process ends: the interpreter does not wait for daemon threads, so
\* the jobs still in cut_job end where they are.
KillDaemons(js) ==
    [i \in 1..Len(js) |->
        IF js[i].st \in {"settle", "saved"} THEN [js[i] EXCEPT !.st = "killed"] ELSE js[i]]

\* ------------------------------------------------------------- run_engine
\* No OCR scan at this frame.
NoScan == [outcome |-> "none", res |-> <<>>, k |-> 0]

\* Motion scores a frame pair can have (np.sum(diff) / (WIDTH * HEIGHT)).
Scores == {0, 12, 13, 20, 21}

\* cleanup_zombies, build_srt_url and the OCR initialisation.
Startup ==
    /\ pc = "startup"
    /\ reader' \in BOOLEAN
    /\ pc' = "launch"
    /\ UNCHANGED <<ocr_obs, motion_obs, sigint>>
    /\ UNCHANGED <<proc, sessions, frame_id, ball_start, last_ocr_time, prev_gray,
                   last_data_time, obs, short_at, jobs, monitor_vars, script_vars, now>>
    /\ UNCHANGED <<host_vars, worker_vars>>
    /\ UNCHANGED recording

\* SessionLocals with the locals of the previous session kept.
SessionLocalsKept ==
    [prev_gray |-> prev_gray, frame_id |-> frame_id, ball_start |-> ball_start,
     last_ocr_time |-> last_ocr_time, last_data_time |-> now]

\* The session's locals after a successful Popen and the monitor start.
SessionLocals ==
    [prev_gray |-> FALSE, frame_id |-> 0, ball_start |-> 0, last_ocr_time |-> 0,
     last_data_time |-> now]

\* Top of the watchdog loop: Popen succeeds, the monitor is started and the
\* session's locals are initialised.
Launch ==
    /\ pc = "launch"
    /\ sessions < MaxSessions
    /\ proc' = "running"
    /\ sessions' = sessions + 1
    /\ mon_thread' = "alive"
    /\ running' = NewMonitor.running
    /\ current_volume' = NewMonitor.current_volume
    /\ trigger' = NewMonitor.trigger
    /\ sustain_count' = NewMonitor.sustain_count
    /\ prev_gray' = SessionLocals.prev_gray
    /\ frame_id' = SessionLocals.frame_id
    /\ ball_start' = SessionLocals.ball_start
    /\ last_ocr_time' = SessionLocals.last_ocr_time
    /\ last_data_time' = SessionLocals.last_data_time
    /\ obs' = "clear"
    /\ ocr_obs' = NoScan
    /\ motion_obs' = 0 - 1
    /\ pc' = "check"
    /\ UNCHANGED <<sigint, reader, short_at, jobs, script_vars, now>>
    /\ UNCHANGED <<host_vars, worker_vars>>
    /\ recording' = [session |-> sessions + 1, opened |-> now, frames |-> 0]

\* Popen raises (the executable is missing, no process can be created): the
\* call is outside the try statement, so the exception leaves run_engine and
\* the process ends.
LaunchFail ==
    /\ pc = "launch"
    /\ sessions < MaxSessions
    /\ jobs' = KillDaemons(jobs)
    /\ pc' = "crashed"
    /\ UNCHANGED <<ocr_obs, motion_obs, sigint>>
    /\ UNCHANGED <<reader, proc, sessions, frame_id, ball_start, last_ocr_time, prev_gray,
                   last_data_time, obs, short_at, monitor_vars, script_vars, now>>
    /\ UNCHANGED <<host_vars, worker_vars>>
    /\ UNCHANGED recording

\* The watchdog check at the top of the frame loop, made before the read.
WatchdogCheck ==
    /\ pc = "check"
    /\ pc' = IF now - last_data_time > IDLE_TIMEOUT THEN "teardown" ELSE "read"
    /\ obs' = "clear"
    /\ ocr_obs' = NoScan
    /\ motion_obs' = 0 - 1
    /\ short_at' = 0 - 1
    /\ UNCHANGED <<sigint>>
    /\ UNCHANGED <<reader, proc, sessions, frame_id, ball_start, last_ocr_time, prev_gray,
                   last_data_time, jobs, monitor_vars, script_vars, now>>
    /\ UNCHANGED <<host_vars, worker_vars>>
    /\ UNCHANGED recording

\* proc.stdout.read returns a full frame; first and later bound the frames of
\* the first session and of a relaunched one.
ReadFrame(first, later) ==
    /\ pc = "read"
    /\ proc = "running"
    /\ frame_id < (IF sessions = 1 THEN first ELSE later)
    /\ last_data_time' = now
    /\ frame_id' = frame_id + 1
    /\ pc' = "audio"
    /\ UNCHANGED <<ocr_obs, motion_obs, sigint>>
    /\ UNCHANGED <<reader, proc, sessions, ball_start, last_ocr_time, prev_gray, obs,
                   short_at, jobs, monitor_vars, script_vars, now>>
    /\ UNCHANGED <<host_vars, worker_vars>>
    /\ recording' = [recording EXCEPT !.frames = frame_id + 1]

\* proc.stdout.read returns fewer bytes than a frame: the loop breaks.
ShortRead ==
    /\ pc = "read"
    /\ pc' = "teardown"
    /\ short_at' = now
    /\ UNCHANGED <<ocr_obs, motion_obs, sigint>>
    /\ UNCHANGED <<reader, proc, sessions, frame_id, ball_start, last_ocr_time, prev_gray,
                   last_data_time, obs, jobs, monitor_vars, script_vars, now>>
    /\ UNCHANGED <<host_vars, worker_vars>>
    /\ UNCHANGED recording

\* AudioTrigger with the motion block's gap in the gate.
AudioTriggerShortGap(trig, f, bs) ==
    LET accept == trig /\ FloatGT(f, bs, MOTION_GAP * FPS)
    IN  [schedule   |-> accept,
         ball_start |-> IF accept THEN f ELSE bs,
         trigger    |-> FALSE]

\* AudioTrigger with the flag cleared only when a clip is scheduled.
AudioTriggerKeepsFlag(trig, f, bs) ==
    LET accept == trig /\ FloatGT(f, bs, AUDIO_GAP * FPS)
    IN  [schedule   |-> accept,
         ball_start |-> IF accept THEN f ELSE bs,
         trigger    |-> IF accept THEN FALSE ELSE trig]

\* AudioTrigger without the update of ball_start.
AudioTriggerKeepsGate(trig, f, bs) ==
    LET accept == trig /\ FloatGT(f, bs, AUDIO_GAP * FPS)
    IN  [schedule   |-> accept,
         ball_start |-> bs,
         trigger    |-> FALSE]

\* The audio block of the frame loop at frame f with the monitor's flag trig
\* and the gate at bs: whether it schedules a clip, and ball_start and the
\* flag after it.
AudioTrigger(trig, f, bs) ==
    LET accept == trig /\ FloatGT(f, bs, AUDIO_GAP * FPS)
    IN  [schedule   |-> accept,
         ball_start |-> IF accept THEN f ELSE bs,
         trigger    |-> FALSE]

\* A. the audio trigger check of the frame.
AudioCheck ==
    /\ pc = "audio"
    /\ LET a == AudioTrigger(trigger, frame_id, ball_start)
       IN  /\ jobs' = IF a.schedule
                      THEN Append(jobs, Schedule(frame_id, <<"Audio-Roar">>))
                      ELSE jobs
           /\ ball_start' = a.ball_start
           /\ trigger' = a.trigger
           /\ obs' = IF ~trigger THEN obs
                     ELSE IF a.schedule THEN "accepted" ELSE "dropped"
    /\ pc' = "ocr"
    /\ UNCHANGED <<ocr_obs, motion_obs, sigint>>
    /\ UNCHANGED <<reader, proc, sessions, frame_id, last_ocr_time, prev_gray,
                   last_data_time, short_at, mon_thread, running, sustain_count,
                   current_volume, script_vars, now>>
    /\ UNCHANGED <<host_vars, worker_vars>>
    /\ UNCHANGED recording

\* OcrDue without the interval since the previous scan.
OcrDueNoInterval ==
    /\ reader
    /\ FloatGT(frame_id, ball_start, OCR_GAP * FPS)

\* OcrDue without the ball_start gate.
OcrDueNoGate ==
    /\ reader
    /\ FloatGT(frame_id, last_ocr_time, OCR_INTERVAL_TICKS)

\* The OCR scan is due at this frame.
OcrDue ==
    /\ reader
    /\ FloatGT(frame_id, last_ocr_time, OCR_INTERVAL_TICKS)
    /\ FloatGT(frame_id, ball_start, OCR_GAP * FPS)

\* OcrSwallowed with the exception propagating out of the frame loop.
OcrEscapes == "teardown"

\* Where the frame loop goes on after an exception inside the try statement
\* of the OCR block: except: pass falls through to the motion block.
OcrSwallowed == "motion"

\* B. the OCR check of the frame; the reader returns a reading or raises.
OcrCheck ==
    /\ pc = "ocr"
    /\ IF OcrDue
       THEN /\ last_ocr_time' = frame_id
            /\ \/ \E res \in OcrReadings :
                     LET k == OcrMatch(OcrText(res))
                     IN  /\ IF k # 0
                            THEN /\ jobs' = Append(jobs,
                                       Schedule(frame_id, <<"OCR-">> \o OCR_KEYWORDS[k]))
                                 /\ ball_start' = frame_id
                            ELSE UNCHANGED <<jobs, ball_start>>
                         /\ ocr_obs' = [outcome |-> "read", res |-> res, k |-> k]
                         /\ pc' = "motion"
               \/ /\ ocr_obs' = [outcome |-> "error", res |-> <<>>, k |-> 0]
                  /\ pc' = OcrSwallowed
                  /\ UNCHANGED <<jobs, ball_start>>
       ELSE /\ pc' = "motion"
            /\ UNCHANGED <<last_ocr_time, jobs, ball_start, ocr_obs>>
    /\ UNCHANGED <<reader, proc, sessions, frame_id, prev_gray, last_data_time, obs,
                   motion_obs, sigint, short_at, monitor_vars, script_vars, now>>
    /\ UNCHANGED <<host_vars, worker_vars>>
    /\ UNCHANGED recording

\* MotionTrigger without the massive-motion test.
MotionTriggerAnyMotion(score, f, bs) ==
    LET accept == score > SCENE_THRESH /\ FloatGT(f, bs, MOTION_GAP * FPS)
    IN  [schedule |-> accept, ball_start |-> IF accept THEN f ELSE bs]

\* The motion block at frame f with motion score and the gate at bs: whether
\* it schedules a clip, and ball_start after it.
MotionTrigger(score, f, bs) ==
    LET accept == /\ score > SCENE_THRESH /\ FloatGT(f, bs, MOTION_GAP * FPS)
                  /\ score > MASSIVE_THRESH
    IN  [schedule |-> accept, ball_start |-> IF accept THEN f ELSE bs]

\* C. the motion check of the frame, then prev_gray = gray.
MotionCheck ==
    /\ pc = "motion"
    /\ IF prev_gray
       THEN \E score \in Scores :
                LET m == MotionTrigger(score, frame_id, ball_start)
                IN  /\ jobs' = IF m.schedule
                               THEN Append(jobs, Schedule(frame_id, <<"Motion">>))
                               ELSE jobs
                    /\ ball_start' = m.ball_start
                    /\ motion_obs' = score
       ELSE UNCHANGED <<jobs, ball_start, motion_obs>>
    /\ prev_gray' = TRUE
    /\ pc' = "check"
    /\ UNCHANGED <<reader, proc, sessions, frame_id, last_ocr_time, last_data_time, obs,
                   ocr_obs, sigint, short_at, monitor_vars, script_vars, now>>
    /\ UNCHANGED <<host_vars, worker_vars>>
    /\ UNCHANGED recording

\* Teardown that also ends the clip jobs of the session.
TeardownCancelsJobs ==
    /\ pc = "teardown"
    /\ running' = FALSE
    /\ \E exited \in BOOLEAN, d \in 0..GRACE_SEC :
          /\ ~exited => d = GRACE_SEC
          /\ proc' = IF exited THEN "terminated" ELSE "killed"
          /\ now + d + COOLDOWN_SEC <= MaxTime
          /\ now' = now + d + COOLDOWN_SEC
    /\ jobs' = KillDaemons(jobs)
    /\ pc' = "launch"
    /\ UNCHANGED <<ocr_obs, motion_obs, sigint>>
    /\ UNCHANGED <<reader, sessions, frame_id, ball_start, last_ocr_time, prev_gray,
                   last_data_time, obs, short_at, mon_thread, trigger, sustain_count,
                   current_volume, script_vars>>
    /\ UNCHANGED <<host_vars, worker_vars>>
    /\ UNCHANGED recording

\* Teardown that goes on to the relaunch without ending the transport.
TeardownLeavesTransport ==
    /\ pc = "teardown"
    /\ running' = FALSE
    /\ now + COOLDOWN_SEC <= MaxTime
    /\ now' = now + COOLDOWN_SEC
    /\ pc' = "launch"
    /\ UNCHANGED <<ocr_obs, motion_obs, sigint, proc>>
    /\ UNCHANGED <<reader, sessions, frame_id, ball_start, last_ocr_time, prev_gray,
                   last_data_time, obs, short_at, jobs, mon_thread, trigger, sustain_count,
                   current_volume, script_vars>>
    /\ UNCHANGED <<host_vars, worker_vars>>
    /\ UNCHANGED recording

\* The finally block: the monitor's run flag is cleared, the process is
\* terminated (killed when it has not exited after the grace period), and the
\* loop sleeps the cooldown before the next launch.
Teardown ==
    /\ pc = "teardown"
    /\ running' = FALSE
    /\ \E exited \in BOOLEAN, d \in 0..GRACE_SEC :
          /\ ~exited => d = GRACE_SEC
          /\ proc' = IF exited THEN "terminated" ELSE "killed"
          /\ now + d + COOLDOWN_SEC <= MaxTime
          /\ now' = now + d + COOLDOWN_SEC
    /\ pc' = "launch"
    /\ UNCHANGED <<ocr_obs, motion_obs, sigint>>
    /\ UNCHANGED <<reader, sessions, frame_id, ball_start, last_ocr_time, prev_gray,
                   last_data_time, obs, short_at, jobs, mon_thread, trigger, sustain_count,
                   current_volume, script_vars>>
    /\ UNCHANGED <<host_vars, worker_vars>>
    /\ UNCHANGED recording

\* KeyboardInterrupt raised in the frame loop outside the OCR block's own try
\* statement: the handler terminates the transport and calls sys.exit(0), the
\* finally clause stops the monitor, terminates, waits or kills, and sleeps,
\* and the process ends.
Interrupt ==
    /\ pc \in {"check", "read", "audio", "ocr", "motion"}
    /\ ~sigint
    /\ sigint' = TRUE
    /\ running' = FALSE
    /\ \E exited \in BOOLEAN, d \in 0..GRACE_SEC :
          /\ ~exited => d = GRACE_SEC
          /\ proc' = IF exited THEN "terminated" ELSE "killed"
          /\ now + d + COOLDOWN_SEC <= MaxTime
          /\ now' = now + d + COOLDOWN_SEC
    /\ jobs' = KillDaemons(jobs)
    /\ pc' = "exited"
    /\ UNCHANGED <<reader, sessions, frame_id, ball_start, last_ocr_time, prev_gray,
                   last_data_time, obs, ocr_obs, motion_obs, short_at, mon_thread,
                   trigger, sustain_count, current_volume, script_vars>>
    /\ UNCHANGED <<host_vars, worker_vars>>
    /\ UNCHANGED recording

\* KeyboardInterrupt raised while the scan is inside the OCR block's try
\* statement (readtext, the keyword loop, cut_ball): the bare except catches
\* it like any other exception.
InterruptInOcr ==
    /\ pc = "ocr"
    /\ OcrDue
    /\ ~sigint
    /\ sigint' = TRUE
    /\ last_ocr_time' = frame_id
    /\ ocr_obs' = [outcome |-> "error", res |-> <<>>, k |-> 0]
    /\ pc' = OcrSwallowed
    /\ UNCHANGED <<reader, proc, sessions, frame_id, ball_start, prev_gray,
                   last_data_time, obs, motion_obs, short_at, jobs, monitor_vars,
                   script_vars, now>>
    /\ UNCHANGED <<host_vars, worker_vars>>
    /\ UNCHANGED recording

\* A second of wall-clock time passes while the frame loop waits for a frame
\* or works on one; the steps between iterations and sessions take no time
\* beyond the waits and sleeps they make themselves.
Tick ==
    /\ pc \in {"read", "audio", "ocr", "motion"}
    /\ now < MaxTime
    /\ now' = now + 1
    /\ UNCHANGED <<host_vars, worker_vars>>
    /\ UNCHANGED <<engine_vars, monitor_vars, script_vars>>

\* A live source: the transport delivers, records and pipes FPS frames in
\* every second since it was launched, and the frame loop keeps up with it.
ReadFrameLive ==
    /\ frame_id < (now - recording.opened + 1) * FPS
    /\ ReadFrame(MaxLiveFrames, MaxLaterFrames)

\* The frames of the current second are read: the next second begins.
LiveTick ==
    /\ pc = "read"
    /\ proc = "running"
    /\ frame_id = (now - recording.opened + 1) * FPS
    /\ now < MaxLiveTime
    /\ now' = now + 1
    /\ UNCHANGED <<host_vars, worker_vars>>
    /\ UNCHANGED <<engine_vars, monitor_vars, script_vars>>

\* The main loop of the worker has taken no step yet, or another process ran.
NoStep == [job |-> <<>>, outcome |-> "none", ts |-> 0]

\* ------------------------------------------------------- the stream manager
\* start_stream, stop_stream and stream_status of the API server, and the
\* engine processes they launch on one host.  An engine is "startup" until its
\* cleanup_zombies has run, "launch" at the top of its watchdog loop, "loop"
\* with a transport launched, and "dead" when the process has ended.

\* The match names of the requests.
Matches == {"m1", "m2"}

\* No session file of a match.
NoFile == [pid |-> 0, start_time |-> 0]

\* The last step was no API call.
NoAnswer == [op |-> "none", match |-> "", status |-> ""]

\* os.kill(pid, 0) succeeds: the engine process with this pid exists.
IsAlive(pid) == pid \in DOMAIN procs /\ procs[pid].st # "dead"

\* subprocess.run(["pkill", "-9", "-f", "ffmpeg"]) in cleanup_zombies: every
\* process of the host whose command line holds "ffmpeg" is killed, the
\* transports and the trims and renders of all engines.
CleanupZombies(ps) ==
    [p \in DOMAIN ps |-> [ps[p] EXCEPT !.transport = FALSE, !.clips = FALSE]]

\* kill_process_tree: the children of the engine and its process group get
\* SIGTERM; a pid that no longer exists is logged and passed over.
KillProcessTree(ps, pid) ==
    IF pid \in DOMAIN ps /\ ps[pid].st # "dead"
    THEN [ps EXCEPT ![pid] = [@ EXCEPT !.st = "dead", !.transport = FALSE,
                                       !.clips = FALSE]]
    ELSE ps

\* POST /api/start_stream for match m: refused when the session file exists;
\* otherwise the engine is started in a process group of its own and the
\* session file written, or Popen raises and the error is answered.
StartStream(m) ==
    /\ IF session_files[m] # NoFile
       THEN /\ answer' = [op |-> "start", match |-> m, status |-> "already running"]
            /\ UNCHANGED <<procs, session_files>>
       ELSE \/ /\ Len(procs) < MaxPids
               /\ procs' = Append(procs, [match |-> m, st |-> "startup",
                                          transport |-> FALSE, clips |-> FALSE])
               /\ session_files' = [session_files EXCEPT
                                       ![m] = [pid |-> Len(procs) + 1,
                                               start_time |-> host_now]]
               /\ answer' = [op |-> "start", match |-> m, status |-> "started"]
            \/ /\ answer' = [op |-> "start", match |-> m, status |-> "error"]
               /\ UNCHANGED <<procs, session_files>>
    /\ UNCHANGED <<host_now, worker_vars>>
    /\ UNCHANGED <<engine_vars, monitor_vars, script_vars, now>>

\* POST /api/stop_stream for match m: the process tree of the recorded pid is
\* killed and the session file removed, or the session is not found.
StopStream(m) ==
    /\ IF session_files[m] # NoFile
       THEN /\ procs' = KillProcessTree(procs, session_files[m].pid)
            /\ session_files' = [session_files EXCEPT ![m] = NoFile]
            /\ answer' = [op |-> "stop", match |-> m, status |-> "stopped"]
       ELSE /\ answer' = [op |-> "stop", match |-> m, status |-> "not found"]
            /\ UNCHANGED <<procs, session_files>>
    /\ UNCHANGED <<host_now, worker_vars>>
    /\ UNCHANGED <<engine_vars, monitor_vars, script_vars, now>>

\* GET /api/stream_status: a session file is kept when its process is alive
\* or the session is younger than the grace period, and removed otherwise.
StreamStatus ==
    /\ session_files' =
          [m \in Matches |->
              IF \/ session_files[m] = NoFile
                 \/ IsAlive(session_files[m].pid)
                 \/ host_now - session_files[m].start_time < NEW_SESSION_SEC
              THEN session_files[m]
              ELSE NoFile]
    /\ answer' = [op |-> "status", match |-> "", status |-> "ok"]
    /\ UNCHANGED <<host_now, procs, worker_vars>>
    /\ UNCHANGED <<engine_vars, monitor_vars, script_vars, now>>

\* run_engine of engine p begins: cleanup_zombies.
EngineCleanup(p) ==
    /\ procs[p].st = "startup"
    /\ procs' = [CleanupZombies(procs) EXCEPT ![p].st = "launch"]
    /\ answer' = NoAnswer
    /\ UNCHANGED <<host_now, session_files, worker_vars>>
    /\ UNCHANGED <<engine_vars, monitor_vars, script_vars, now>>

\* Engine p launches its transport at the top of the watchdog loop; when
\* Popen raises, the exception leaves run_engine and the process ends.
EngineLaunch(p) ==
    /\ procs[p].st = "launch"
    /\ \/ procs' = [procs EXCEPT ![p].st = "loop", ![p].transport = TRUE]
       \/ procs' = [procs EXCEPT ![p].st = "dead"]
    /\ answer' = NoAnswer
    /\ UNCHANGED <<host_now, session_files, worker_vars>>
    /\ UNCHANGED <<engine_vars, monitor_vars, script_vars, now>>

\* A trigger of engine p: a trim, and then a render, runs as a child process.
EngineClip(p) ==
    /\ procs[p].st = "loop"
    /\ procs[p].transport
    /\ ~procs[p].clips
    /\ procs' = [procs EXCEPT ![p].clips = TRUE]
    /\ answer' = NoAnswer
    /\ UNCHANGED <<host_now, session_files, worker_vars>>
    /\ UNCHANGED <<engine_vars, monitor_vars, script_vars, now>>

\* The trim or render of engine p ends.
EngineClipDone(p) ==
    /\ procs[p].clips
    /\ procs' = [procs EXCEPT ![p].clips = FALSE]
    /\ answer' = NoAnswer
    /\ UNCHANGED <<host_now, session_files, worker_vars>>
    /\ UNCHANGED <<engine_vars, monitor_vars, script_vars, now>>

\* The transport of engine p is gone: its frame loop gets a short read, the
\* session is torn down and the watchdog loop goes on to a relaunch.
EngineShortRead(p) ==
    /\ procs[p].st = "loop"
    /\ ~procs[p].transport
    /\ procs' = [procs EXCEPT ![p].st = "launch"]
    /\ answer' = NoAnswer
    /\ UNCHANGED <<host_now, session_files, worker_vars>>
    /\ UNCHANGED <<engine_vars, monitor_vars, script_vars, now>>

\* A second passes on the host.
HostTick ==
    /\ host_now < MaxHostTime
    /\ host_now' = host_now + 1
    /\ answer' = NoAnswer
    /\ wlast' = NoStep
    /\ UNCHANGED <<procs, session_files, queue, tmp_files, errors, finals>>
    /\ UNCHANGED <<engine_vars, monitor_vars, script_vars, now>>

\* The host when the server and the worker have started: no engine, no
\* session file, an empty queue and no output.
HostInit ==
    /\ host_now = 0
    /\ procs = <<>>
    /\ session_files = [m \in Matches |-> NoFile]
    /\ answer = NoAnswer
    /\ queue = {}
    /\ tmp_files = {}
    /\ errors = {}
    /\ finals = {}
    /\ wlast = NoStep

\* ------------------------------------------------------ the branding worker
\* api_queue of the server writes job files; the main loop of worker.py takes
\* them one at a time and runs process_video.  A job file is a record of its
\* name (the second it was queued at and the file name) and of what decides
\* the course of process_video: sub (the request names a subfolder), src (the
\* source file is found), and logo, intro, outro (the step is asked for and
\* its asset exists).

\* The file names of the clips to brand.
Files == {1, 2}

\* The requests a client posts to /api/queue.
Requests ==
    { [sub |-> TRUE, src |-> TRUE, logo |-> FALSE, intro |-> FALSE, outro |-> FALSE],
      [sub |-> TRUE, src |-> TRUE, logo |-> TRUE, intro |-> TRUE, outro |-> FALSE],
      [sub |-> TRUE, src |-> TRUE, logo |-> TRUE, intro |-> TRUE, outro |-> TRUE],
      [sub |-> TRUE, src |-> FALSE, logo |-> TRUE, intro |-> TRUE, outro |-> FALSE],
      [sub |-> FALSE, src |-> TRUE, logo |-> TRUE, intro |-> FALSE, outro |-> FALSE] }

\* The name of a job file: f"{int(time.time())}_{filename}.json".
JobName(job) == <<job.ts, job.file>>

\* jobs.sort(): the order of two job file names.
JobBefore(a, b) == a.ts < b.ts \/ (a.ts = b.ts /\ a.file < b.file)

\* jobs[0] after the sort.
FirstJob(q) == CHOOSE j \in q : \A k \in q \ {j} : JobBefore(j, k)

\* current_pointer while no step has produced a file: the source video.
Original == <<"source", 0>>

\* One step of the pipeline inside the try statement of process_video, on
\* the locals s: skipped when an earlier step raised or the step is not
\* wanted; with exit status 0 its output becomes current_pointer and is put
\* on files_to_cleanup; otherwise run_ffmpeg raises, and the output the failed
\* ffmpeg wrote so far is there (part) or not.
RunStep(s, name, wanted, rc, part) ==
    IF ~s.ok \/ ~wanted THEN s
    ELSE IF rc = 0
         THEN [ok |-> TRUE, ptr |-> name,
               cleanup |-> s.cleanup \cup {name},
               written |-> s.written \cup {name}]
         ELSE [s EXCEPT !.ok = FALSE,
                        !.written = IF part THEN @ \cup {name} ELSE @]

\* process_video from "4. PREPARE OUTPUTS" on, at second ts, the steps ending
\* with the exit statuses rc: the files and records it leaves.
ProcessVideo(job, ts, rc, part) ==
    LET s0 == [ok |-> TRUE, ptr |-> Original, cleanup |-> {}, written |-> {}]
        s1 == RunStep(s0, <<"tmp_logo", ts>>, job.logo, rc[1], part)
        s2 == RunStep(s1, <<"tmp_intro", ts>>, job.intro, rc[2], part)
        s3 == RunStep(s2, <<"tmp_outro", ts>>, job.outro, rc[3], part)
        renamed == IF s3.ok /\ s3.ptr # Original THEN {s3.ptr} ELSE {}
        removed == s3.cleanup \ {s3.ptr}
    IN  [ok |-> s3.ok,
         tmp_files |-> ((tmp_files \cup s3.written) \ renamed) \ removed,
         errors |-> IF s3.ok THEN errors \ {job.file} ELSE errors \cup {job.file},
         finals |-> IF s3.ok THEN finals \cup {job.file} ELSE finals]

\* POST /api/queue: the error record of the file name is removed and the job
\* file written under the name of the current second.
Enqueue(file, req) ==
    /\ LET job == req @@ [ts |-> host_now, file |-> file]
           others == {j \in queue : JobName(j) # JobName(job)}
       IN  /\ Cardinality(others) < MaxQueue
           /\ queue' = others \cup {job}
    /\ errors' = errors \ {file}
    /\ wlast' = NoStep
    /\ answer' = [op |-> "queue", match |-> "", status |-> "ok"]
    /\ UNCHANGED <<host_now, procs, session_files, tmp_files, finals>>
    /\ UNCHANGED <<engine_vars, monitor_vars, script_vars, now>>

\* One pass of the main loop: with no job file it sleeps; otherwise it takes
\* the first file in name order, and process_video raises before its try
\* statement (no subfolder in the job), returns False for a missing source,
\* or runs the pipeline; when process_video has returned the job file is
\* removed, and when it raised the loop logs the error and sleeps.
WorkerLoop ==
    /\ IF queue = {}
       THEN /\ wlast' = [NoStep EXCEPT !.outcome = "idle"]
            /\ UNCHANGED <<queue, tmp_files, errors, finals>>
       ELSE LET job == FirstJob(queue)
            IN  IF ~job.sub
                THEN /\ wlast' = [job |-> JobName(job), outcome |-> "raised",
                                  ts |-> host_now]
                     /\ UNCHANGED <<queue, tmp_files, errors, finals>>
                ELSE IF ~job.src
                THEN /\ wlast' = [job |-> JobName(job), outcome |-> "no source",
                                  ts |-> host_now]
                     /\ queue' = queue \ {job}
                     /\ UNCHANGED <<tmp_files, errors, finals>>
                ELSE \E rc \in [1..3 -> ExitStatuses], part \in BOOLEAN :
                        LET r == ProcessVideo(job, host_now, rc, part)
                        IN  /\ wlast' = [job |-> JobName(job),
                                         outcome |-> IF r.ok THEN "ok" ELSE "failed",
                                         ts |-> host_now]
                            /\ tmp_files' = r.tmp_files
                            /\ errors' = r.errors
                            /\ finals' = r.finals
                            /\ queue' = queue \ {job}
    /\ answer' = NoAnswer
    /\ UNCHANGED <<host_now, procs, session_files>>
    /\ UNCHANGED <<engine_vars, monitor_vars, script_vars, now>>

\* ---------------------------------------------------------- specifications
Init ==
    /\ pc = "startup"
    /\ reader = FALSE
    /\ proc = "none"
    /\ sessions = 0
    /\ now = 0
    /\ frame_id = 0
    /\ ball_start = 0
    /\ last_ocr_time = 0
    /\ prev_gray = FALSE
    /\ last_data_time = 0
    /\ mon_thread = "none"
    /\ running = FALSE
    /\ trigger = FALSE
    /\ sustain_count = 0
    /\ current_volume = 0
    /\ obs = "clear"
    /\ ocr_obs = NoScan
    /\ motion_obs = 0 - 1
    /\ sigint = FALSE
    /\ short_at = 0 - 1
    /\ jobs = <<>>
    /\ recording = [session |-> 0, opened |-> 0, frames |-> 0]
    /\ feed = <<>>
    /\ chunk_no = 0
    /\ raised_at = <<>>
    /\ HostInit

FrameLoop == AudioCheck \/ OcrCheck \/ MotionCheck

\* The engine on a stream whose frames arrive without delay, the transport
\* starting each time and the monitor's reads succeeding.
Next ==
    \/ Startup
    \/ Launch
    \/ WatchdogCheck
    \/ ReadFrame(MaxFrames, MaxLaterFrames)
    \/ ShortRead
    \/ FrameLoop
    \/ Teardown
    \/ AudioChunk
    \/ AudioShortRead
    \/ AudioStop

Spec == Init /\ [][Next]_vars

\* The engine with wall-clock time, launch failures and monitor read errors,
\* on the first frames of each session.
NextTimed ==
    \/ Startup
    \/ Launch
    \/ LaunchFail
    \/ WatchdogCheck
    \/ ReadFrame(MaxTimedFrames, MaxTimedFrames)
    \/ ShortRead
    \/ FrameLoop
    \/ Teardown
    \/ Tick
    \/ AudioChunk
    \/ AudioShortRead
    \/ AudioReadError
    \/ AudioStop

\* The steps of the engine's own thread: the interpreter keeps running them.
\* A frame arriving (ReadFrame, ShortRead) is up to the transport.
EngineStep == Startup \/ Launch \/ WatchdogCheck \/ FrameLoop \/ Teardown

SpecTimed == Init /\ [][NextTimed]_vars /\ WF_vars(EngineStep) /\ WF_vars(Tick)

\* ------------------------------------------------------- scripted audio
ScriptVolumes == [quiet |-> 0, loud |-> 90]
\* Volumes of a free feed: silence, the threshold, just above it, beyond the clamp.
FeedVolumes == {0, 65, 66, 120}

Chunks(n, v) == [i \in 1..n |-> v]

\* n quiet chunks followed by m loud ones.
Script(n, m) == Chunks(n, ScriptVolumes.quiet) \o Chunks(m, ScriptVolumes.loud)

Scripts == {Script(n, m) : n \in 0..MaxQuiet, m \in 0..MaxLoud}

RECURSIVE FreeFeeds(_)
FreeFeeds(n) ==
    IF n = 0 THEN {<<>>}
    ELSE LET shorter == FreeFeeds(n - 1)
         IN  shorter \cup {Append(f, v) : f \in {g \in shorter : Len(g) = n - 1},
                                           v \in FeedVolumes}

\* A session just launched, the frame loop waiting for its first frame, and
\* the monitor's pipe delivering a scripted feed.
InitAudio ==
    /\ pc = "read"
    /\ reader = FALSE
    /\ proc = "running"
    /\ sessions = 1
    /\ now = 0
    /\ frame_id = SessionLocals.frame_id
    /\ ball_start = SessionLocals.ball_start
    /\ last_ocr_time = SessionLocals.last_ocr_time
    /\ prev_gray = SessionLocals.prev_gray
    /\ last_data_time = 0
    /\ mon_thread = "alive"
    /\ running = NewMonitor.running
    /\ trigger = NewMonitor.trigger
    /\ sustain_count = NewMonitor.sustain_count
    /\ current_volume = NewMonitor.current_volume
    /\ obs = "clear"
    /\ ocr_obs = NoScan
    /\ motion_obs = 0 - 1
    /\ sigint = FALSE
    /\ short_at = 0 - 1
    /\ jobs = <<>>
    /\ recording = [session |-> 1, opened |-> 0, frames |-> 0]
    /\ feed \in Scripts \cup FreeFeeds(MaxFeed)
    /\ chunk_no = 0
    /\ raised_at = <<>>
    /\ HostInit

NextAudio == ScriptedChunk \/ AudioShortRead \/ AudioReadError

SpecAudio == InitAudio /\ [][NextAudio]_vars

\* ------------------------------------------------------------- clip jobs
JobStep == \E i \in 1..Len(jobs) : JobTrim(i) \/ MakeVertical(i)

\* The engine with its clip jobs, launch failures and a KeyboardInterrupt,
\* on a stream long enough for the first OCR trigger of the first session;
\* the monitor's pipe stays silent.  The threads of the jobs keep being
\* scheduled while the process lives.
NextJobs ==
    \/ Startup
    \/ Launch
    \/ LaunchFail
    \/ WatchdogCheck
    \/ ReadFrame(MaxJobFrames, MaxLaterFrames)
    \/ ShortRead
    \/ FrameLoop
    \/ Teardown
    \/ Interrupt
    \/ InterruptInOcr
    \/ \E i \in 1..Len(jobs) : JobTrim(i)
    \/ \E i \in 1..Len(jobs) : MakeVertical(i)
    \/ AudioStop

SpecJobs == Init /\ [][NextJobs]_vars /\ WF_vars(JobStep)

\* One session of the engine with its clip jobs, the monitor's pipe silent.
NextClips ==
    \/ Startup
    \/ Launch
    \/ WatchdogCheck
    \/ ReadFrame(MaxFrames, MaxLaterFrames)
    \/ FrameLoop
    \/ \E i \in 1..Len(jobs) : JobTrim(i)
    \/ \E i \in 1..Len(jobs) : MakeVertical(i)

SpecClips == Init /\ [][NextClips]_vars

\* The frame loop on the live scene: after frame MaxEventFrames the picture
\* holds nothing that any detector accepts.
FrameLoopLive ==
    /\ FrameLoop
    /\ frame_id > MaxEventFrames => jobs' = jobs

\* One session on a live source, with its clip jobs and their settle delay,
\* the monitor's pipe silent.
NextLive ==
    \/ Startup
    \/ Launch
    \/ WatchdogCheck
    \/ ReadFrameLive
    \/ LiveTick
    \/ FrameLoopLive
    \/ \E i \in 1..Len(jobs) : JobTrimTimed(i)
    \/ \E i \in 1..Len(jobs) : MakeVertical(i)

SpecLive == Init /\ [][NextLive]_vars

\* The stream manager with the engines it starts.
NextHost ==
    \/ \E m \in Matches : StartStream(m)
    \/ \E m \in Matches : StopStream(m)
    \/ StreamStatus
    \/ \E p \in DOMAIN procs : EngineCleanup(p)
    \/ \E p \in DOMAIN procs : EngineLaunch(p)
    \/ \E p \in DOMAIN procs : EngineClip(p)
    \/ \E p \in DOMAIN procs : EngineClipDone(p)
    \/ \E p \in DOMAIN procs : EngineShortRead(p)
    \/ HostTick

SpecHost == Init /\ [][NextHost]_vars

\* The seconds in which the worker is watched.
QueueTick ==
    /\ host_now < MaxQueueTime
    /\ HostTick

\* The branding worker with the requests that fill its queue.
NextWorker ==
    \/ \E file \in Files, req \in Requests : Enqueue(file, req)
    \/ WorkerLoop
    \/ QueueTick

SpecWorker == Init /\ [][NextWorker]_vars

\* ====================================================================
\* Properties
\* ====================================================================
JobPairs == {p \in (1..Len(jobs)) \X (1..Len(jobs)) : p[1] < p[2]}

SameSession(p) == jobs[p[1]].session = jobs[p[2]].session

\* C1: for every accepted trigger, the duration handed to the trim (the job's
\* end minus its start, passed as -t) lies in [BALL_MIN, BALL_MAX] seconds.
C1_ClipDurationClamped ==
    \A i \in 1..Len(jobs) :
        /\ CutJobDuration(jobs[i]) >= BALL_MIN * FPS
        /\ CutJobDuration(jobs[i]) <= BALL_MAX * FPS

\* C2 as claimed: any two accepted triggers of one session have frame
\* timestamps at least 8 s apart.
C2_TriggersEightSecondsApart ==
    \A p \in JobPairs :
        SameSession(p) => jobs[p[2]].at - jobs[p[1]].at >= MOTION_GAP * FPS

\* C2 as amended: any two accepted triggers of one session have frame
\* timestamps at least 5 s apart, the OCR gap being the smallest of the three.
C2_TriggersFiveSecondsApart ==
    \A p \in JobPairs :
        SameSession(p) => jobs[p[2]].at - jobs[p[1]].at >= OCR_GAP * FPS

\* Two triggers accepted in one session less than 8 s apart.
C2_Witness ==
    \E p \in JobPairs :
        /\ SameSession(p)
        /\ jobs[p[2]].at - jobs[p[1]].at < MOTION_GAP * FPS

\* The frame loop has been waiting in the read for longer than the idle timeout.
Stalled == pc = "read" /\ now - last_data_time > IDLE_TIMEOUT

\* C3: when no frame has arrived for longer than the idle timeout and the
\* video channel stays open, the frame loop does not wait for a frame
\* indefinitely: it eventually leaves the read (to tear the session down).
C3_StallTornDown == Stalled ~> (pc # "read")

\* C4: a launch that raises does not crash the engine (it is handled by the
\* watchdog loop, which waits the cooldown and retries).
C4_LaunchFailureHandled == pc # "crashed"

\* C5: once the AudioMonitor has terminated on a read error, the watchdog
\* check does not go on to read another frame: the session is torn down as
\* for a stalled pipe, never left running without a reader on the audio pipe.
C5_MonitorDeathTornDown ==
    [][(pc = "check" /\ mon_thread = "dead") => pc' # "read"]_vars

\* C6: after a short read of the video channel the session is torn down
\* (run flag cleared, transport terminated or killed) and the watchdog loop is
\* back at the launch within the idle timeout; the session it launches starts
\* with frame_id = 0 and ball_start = 0.
C6_ShortReadRelaunch ==
    short_at >= 0 =>
        /\ pc \in {"teardown", "launch", "check"}
        /\ now - short_at <= IDLE_TIMEOUT
        /\ pc = "launch" => ~running /\ proc \in {"terminated", "killed"}
        /\ pc = "check" => /\ proc = "running"
                           /\ frame_id = 0
                           /\ ball_start = 0

\* A session relaunched after a short read that ended a session in which a
\* trigger had been accepted (so ball_start and frame_id were not 0).
C6_Witness ==
    /\ short_at >= 0
    /\ pc = "check"
    /\ sessions = 2
    /\ \E i \in 1..Len(jobs) : jobs[i].session = 1

\* The chunks r-2, r-1 and r of the feed are all above the threshold.
LoudRunEndsAt(r) ==
    /\ r >= AUDIO_SUSTAIN
    /\ \A i \in (r - AUDIO_SUSTAIN + 1)..r : feed[i] > AUDIO_THRESH

\* C7: the trigger is raised only by a chunk that completes AUDIO_SUSTAIN
\* chunks in a row above AUDIO_THRESH (never by a single loud chunk), and a
\* chunk at or below the threshold leaves sustain_count at 0.
C7_SustainedLoudnessOnly ==
    /\ \A i \in 1..Len(raised_at) : LoudRunEndsAt(raised_at[i])
    /\ trigger => \E r \in 1..chunk_no : LoudRunEndsAt(r)
    /\ (chunk_no >= 1 /\ feed[chunk_no] <= AUDIO_THRESH) => sustain_count = 0

\* The monitor raised the trigger after the counter had been reset by a chunk
\* at the threshold in between loud chunks.
C7_Witness ==
    /\ trigger
    /\ raised_at # <<>>
    /\ \E i \in 1..chunk_no : feed[i] = AUDIO_THRESH /\ i < raised_at[1]
    /\ \E i \in 1..chunk_no : feed[i] > AUDIO_THRESH /\ i < raised_at[1] - AUDIO_SUSTAIN

\* The chunk numbers at which a feed of n quiet chunks followed by loud ones
\* raises the trigger, among its first c chunks: n + 3, n + 6, ...
ExpectedRaises(n, c) ==
    [i \in 1..(Max(c - n, 0) \div AUDIO_SUSTAIN) |-> n + AUDIO_SUSTAIN * i]

\* C8: on n quiet chunks followed by loud chunks the trigger is raised on the
\* 3rd loud chunk and not earlier, and again only after 3 more loud chunks
\* (20 quiet and 5 loud chunks: exactly once, at chunk 23); the chunk that
\* raises the trigger leaves sustain_count at 0.
C8_RaisedOnThirdLoudChunk ==
    \A n \in 0..MaxQuiet, m \in 0..MaxLoud :
        feed = Script(n, m) =>
            /\ raised_at = ExpectedRaises(n, chunk_no)
            /\ trigger = (raised_at # <<>>)
            /\ (raised_at # <<>> /\ raised_at[Len(raised_at)] = chunk_no)
                   => sustain_count = 0

\* The feed of 20 quiet and 5 loud chunks read to its end: one raise, at the
\* 3rd loud chunk.
C8_Witness ==
    /\ feed = Script(20, 5)
    /\ chunk_no = Len(feed)
    /\ raised_at = <<23>>
    /\ trigger

\* The audio job the step appends, if it appends one.
AudioJobAdded ==
    /\ Len(jobs') = Len(jobs) + 1
    /\ jobs'[Len(jobs')].reason = <<"Audio-Roar">>

\* C9: the frame loop clears the audio flag on the frame where it sees it
\* set, whether or not the gate lets it schedule a clip; a trigger seen during
\* a cool-down schedules nothing, and an audio clip is scheduled only by an
\* audio check that sees the flag set, which only the monitor sets again.
C9_AudioFlagConsumed ==
    [][ /\ (pc = "audio" /\ pc' = "ocr" /\ trigger) => ~trigger'
        /\ (pc = "audio" /\ pc' = "ocr" /\ trigger
              /\ ~FloatGT(frame_id, ball_start, AUDIO_GAP * FPS))
             => jobs' = jobs /\ ball_start' = ball_start
        /\ AudioJobAdded => pc = "audio" /\ trigger
        /\ (~trigger /\ trigger') => pc' = pc /\ jobs' = jobs /\ mon_thread = "alive"
      ]_vars

\* The audio check has just seen the flag set during a cool-down: the flag is
\* cleared and no clip is scheduled.
C9_Witness ==
    /\ pc = "ocr"
    /\ obs = "dropped"
    /\ ~trigger
    /\ ball_start > 0

\* C10: a frame schedules at most one clip, and the sources are tried in the
\* order Audio, OCR, Motion: after the audio check accepted at a frame, the
\* OCR and motion checks of that frame schedule nothing.
C10_OneClipPerFrame ==
    /\ \A p \in JobPairs : SameSession(p) => jobs[p[1]].at # jobs[p[2]].at
    /\ (obs = "accepted" /\ pc \in {"ocr", "motion", "check"}) =>
           /\ jobs # <<>>
           /\ jobs[Len(jobs)].reason = <<"Audio-Roar">>
           /\ jobs[Len(jobs)].at = frame_id
           /\ ball_start = frame_id

\* A frame whose audio check accepted has been through its OCR and motion
\* checks, with a previous frame to compare with.
C10_Witness ==
    /\ obs = "accepted"
    /\ pc = "check"
    /\ prev_gray
    /\ reader

\* Whether the timestamp of frame fa exceeds the timestamp of frame fb by
\* more than g / FPS seconds.  The timestamps are the doubles t = frame / FPS
\* the loop computes and the comparison is exact: neither the difference nor
\* the gap is rounded.  fa >= fb >= 0, fa >= 1, g >= 1.
TimeGapExceeds(fa, fb, g) ==
    IF fa - fb # g THEN fa - fb > g
    ELSE LET ka == Ulp(fa)
             kb == IF fb = 0 THEN ka ELSE Ulp(fb)
             K  == Max(ka, kb)
         IN  DivErr(fa) * Pow2(K - ka) - DivErr(fb) * Pow2(K - kb) > 0

\* The gap, in seconds, of the source that scheduled a clip for this reason.
GateOf(reason) ==
    IF reason = <<"Audio-Roar">> THEN AUDIO_GAP
    ELSE IF reason = <<"Motion">> THEN MOTION_GAP
    ELSE OCR_GAP

\* The frame of the accepted trigger before job i in its session, 0 if none.
PreviousAccepted(i) ==
    IF i > 1 /\ jobs[i - 1].session = jobs[i].session THEN jobs[i - 1].at ELSE 0

\* C11: every accepted trigger satisfies the gate of its own source at the
\* moment it is accepted: its timestamp t exceeds ball_start, the timestamp of
\* the previous accepted trigger of the session (0 if none), by more than
\* 10 s for Audio, 5 s for OCR and 8 s for Motion.
C11_AcceptedPassesOwnGate ==
    \A i \in 1..Len(jobs) :
        TimeGapExceeds(jobs[i].at, PreviousAccepted(i), GateOf(jobs[i].reason) * FPS)

\* A second OCR trigger of a session, gated by the first.
C11_Witness ==
    \E i \in 2..Len(jobs) :
        /\ PreviousAccepted(i) > 0
        /\ Head(jobs[i].reason) = "OCR-"

\* The clips scheduled at the current frame of the current session.
JobsOfFrame == {i \in 1..Len(jobs) : jobs[i].session = sessions /\ jobs[i].at = frame_id}

ModerateMotion ==
    pc = "check" /\ motion_obs > SCENE_THRESH /\ motion_obs <= MASSIVE_THRESH

\* C12: after a motion check that saw a score above SCENE_THRESH (12) but not
\* above 20, no clip with reason Motion has been scheduled at the frame, and
\* ball_start is the frame's timestamp only if another source accepted at it;
\* this also when more than 8 s have passed since ball_start.
C12_ModerateMotionIgnored ==
    ModerateMotion =>
        /\ \A i \in JobsOfFrame : jobs[i].reason # <<"Motion">>
        /\ ball_start = frame_id => JobsOfFrame # {}

\* A score of exactly 20 seen with the 8 s gate open and nothing accepted.
C12_Witness ==
    /\ ModerateMotion
    /\ motion_obs = MASSIVE_THRESH
    /\ ball_start < frame_id
    /\ FloatGT(frame_id, ball_start, MOTION_GAP * FPS)

\* text.split(" "): the maximal runs of text between spaces.
RECURSIVE Tokens(_)
Tokens(text) ==
    IF \A i \in 1..Len(text) : text[i] # SP THEN {text}
    ELSE LET i == CHOOSE n \in 1..Len(text) :
                      text[n] = SP /\ \A m \in 1..(n - 1) : text[m] # SP
         IN  {SubSeq(text, 1, i - 1)} \cup Tokens(SubSeq(text, i + 1, Len(text)))

\* The keyword the last scan broke on is numeric.
NumericAccepted == ocr_obs.k # 0 /\ OCR_KEYWORDS[ocr_obs.k] \in NumericKeywords

\* C13: after a scan that returned a reading, a numeric keyword ("4", "6")
\* has been accepted only if it is a whole space-delimited token of the
\* joined, uppercased text, and "4" is accepted whenever it is one: "14", "41"
\* and "45" match nothing, "SCORE 4 RUNS" matches "4"; a numeric keyword
\* rejected as part of a longer token does not stop a later keyword that
\* occurs in the text from being accepted; the accepted keyword is the reason
\* of the clip scheduled at the frame.
C13_NumericKeywordWholeToken ==
    ocr_obs.outcome = "read" =>
        LET text == OcrText(ocr_obs.res)
            k    == ocr_obs.k
            tok  == Tokens(text)
        IN  /\ NumericAccepted => OCR_KEYWORDS[k] \in tok
            /\ <<"4">> \in tok => k = 1
            /\ text \in {<<"1","4">>, <<"4","1">>, <<"4","5">>} => k = 0
            /\ text = <<"S","C","O","R","E"," ","4"," ","R","U","N","S">> => k = 1
            /\ (/\ tok \cap NumericKeywords = {}
                /\ \E j \in 1..Len(OCR_KEYWORDS) :
                       /\ OCR_KEYWORDS[j] \notin NumericKeywords
                       /\ Contains(text, OCR_KEYWORDS[j]))
               => k # 0 /\ Contains(text, OCR_KEYWORDS[k]) /\ ~NumericAccepted
            /\ k # 0 => \E i \in JobsOfFrame :
                            jobs[i].reason = <<"OCR-">> \o OCR_KEYWORDS[k]

\* "41 out" was read: "4" rejected inside "41", then OUT accepted.
C13_Witness ==
    /\ ocr_obs.outcome = "read"
    /\ ocr_obs.res = << <<"4","1">>, <<"o","u","t">> >>
    /\ ocr_obs.k = 3
    /\ \E i \in JobsOfFrame : jobs[i].reason = <<"OCR-", "O", "U", "T">>

\* The OCR check of this step ran a scan.
ScanRuns == pc = "ocr" /\ ocr_obs'.outcome # "none"

\* C18: a scan runs at a frame only if the frame's timestamp t exceeds the
\* timestamp of the previous scan of the session by more than OCR_INTERVAL
\* (0.4 s) and ball_start, and so every accepted trigger of the session, by
\* more than 5 s; the scan becomes the previous scan.  Timestamps are the
\* doubles t = frame_id / FPS.
C18_ScanRateLimited ==
    [][ScanRuns =>
          /\ TimeGapExceeds(frame_id, last_ocr_time, OCR_INTERVAL_TICKS)
          /\ TimeGapExceeds(frame_id, ball_start, OCR_GAP * FPS)
          /\ \A i \in 1..Len(jobs) :
                 jobs[i].session = sessions
                     => TimeGapExceeds(frame_id, jobs[i].at, OCR_GAP * FPS)
          /\ last_ocr_time' = frame_id]_vars

\* A scan has run after an earlier scan and after an accepted trigger of the
\* session, and matched nothing.
C18_Witness ==
    /\ pc = "motion"
    /\ ocr_obs.outcome = "read"
    /\ ocr_obs.k = 0
    /\ last_ocr_time = frame_id
    /\ ball_start > 0
    /\ \E i \in 1..Len(jobs) : jobs[i].session = sessions /\ jobs[i].at = ball_start

\* The OCR check of this step ran a scan in which the reader raised.
ScanRaises == pc = "ocr" /\ ocr_obs'.outcome = "error"

\* C19: a scan in which the OCR engine raises schedules no clip, leaves
\* ball_start unchanged and leaves the transport, the monitor and the session
\* alone; the next step of the loop is the motion check of the same frame.
C19_OcrExceptionSwallowed ==
    [][/\ ScanRaises =>
            /\ jobs' = jobs
            /\ ball_start' = ball_start
            /\ pc' = "motion"
            /\ proc' = proc /\ running' = running /\ sessions' = sessions
       /\ (ocr_obs.outcome = "error" /\ pc = "motion") =>
            pc' \in {"motion", "check"} /\ ocr_obs' = ocr_obs]_vars

\* After a scan that raised, the motion check of the frame has seen a score
\* and the loop is about to read the next frame.
C19_Witness ==
    /\ ocr_obs.outcome = "error"
    /\ pc = "check"
    /\ motion_obs >= 0
    /\ proc = "running"

\* C14: in every clip job the trim has been invoked at most once; the
\* vertical render has been invoked only in a job whose trim was invoked once
\* and ended with status 0; a job whose trim ended non-zero is over, with no
\* vertical render invoked.
C14_TrimOnceThenVertical ==
    \A i \in 1..Len(jobs) :
        /\ jobs[i].trims <= 1
        /\ jobs[i].verts <= 1
        /\ (jobs[i].verts > 0 \/ jobs[i].st \in {"saved", "ready"})
               => jobs[i].trims = 1 /\ jobs[i].trim_rc = 0
        /\ jobs[i].trim_rc > 0
               => jobs[i].st = "failed" /\ jobs[i].verts = 0 /\ jobs[i].trims = 1

\* One job over after a failed trim, another rendered after a trim that
\* ended 0.
C14_Witness ==
    \E i, j \in 1..Len(jobs) :
        /\ jobs[i].st = "failed" /\ jobs[i].trim_rc = 1
        /\ jobs[j].st = "ready" /\ jobs[j].trim_rc = 0 /\ jobs[j].verts = 1

\* C15 as claimed: a job whose vertical render ended non-zero is not
\* reported as ready.
C15_FailedVerticalNotReady ==
    \A i \in 1..Len(jobs) : jobs[i].vert_rc > 0 => jobs[i].st # "ready"

\* A clip is scheduled in this step.
ClipScheduled == Len(jobs') > Len(jobs)

\* C17: scheduling a clip does not hold up the frame loop.  The step that
\* schedules a clip ends with the new job in its settle delay, nothing of it
\* invoked, the jobs before it as they were, and the loop at its next block;
\* and whatever the number and the state of the jobs, the watchdog check, the
\* audio block and the motion block can run and a frame of the stream can be
\* read.
C17_SchedulingNeverBlocks ==
    [][/\ ClipScheduled =>
            /\ Len(jobs') = Len(jobs) + 1
            /\ SubSeq(jobs', 1, Len(jobs)) = jobs
            /\ jobs'[Len(jobs')].st = "settle"
            /\ jobs'[Len(jobs')].trims = 0
            /\ pc' # pc
       /\ pc \in {"check", "audio", "motion"}
              => ENABLED (WatchdogCheck \/ AudioCheck \/ MotionCheck)
       /\ (pc = "read" /\ frame_id < MaxFrames)
              => ENABLED ReadFrame(MaxFrames, MaxLaterFrames)]_vars

\* Two jobs in their settle delay at once, the loop past the frame that
\* scheduled the second.
C17_Witness ==
    /\ Len(jobs) = 2
    /\ jobs[1].st = "settle"
    /\ jobs[2].st = "settle"
    /\ pc = "check"

ProcessEnded == pc \in {"exited", "crashed"}

\* C16 as claimed: no launched job ends without having invoked the trim,
\* also when the engine is shut down during the job's settle delay.
C16_NoJobEndsUntrimmed ==
    \A i \in 1..Len(jobs) : jobs[i].st = "killed" => jobs[i].trims = 1

\* C16 as amended: no job invokes the trim more than once, and while jobs
\* are in their settle delay, across restarts of the session by the watchdog,
\* either every job gets to invoke its trim or the process ends (a shutdown
\* by the user, a launch that raises) and takes the waiting jobs with it.
C16_TrimmedUnlessProcessEnds ==
    /\ [](\A i \in 1..Len(jobs) : jobs[i].trims <= 1)
    /\ (\E i \in 1..Len(jobs) : jobs[i].st = "settle")
          ~> (ProcessEnded \/ \A i \in 1..Len(jobs) : jobs[i].trims = 1)

\* A job of the first session has invoked its trim and the engine is in its
\* second session, alive.
C16_Witness ==
    /\ sessions = 2
    /\ pc = "read"
    /\ \E i \in 1..Len(jobs) :
          jobs[i].session = 1 /\ jobs[i].trims = 1 /\ jobs[i].st # "killed"

\* C20 as claimed: once a KeyboardInterrupt has been delivered during the
\* frame loop, the engine has terminated the transport, cleared the monitor's
\* run flag and exited.
C20_InterruptShutsDown ==
    sigint => /\ pc = "exited"
              /\ proc \in {"terminated", "killed"}
              /\ ~running

\* C21 as claimed: while a clip job is in its settle delay, the recording is
\* only appended to: no step truncates it or hands it to another launch.
C21_RecordingAppendOnly ==
    [][(\E i \in 1..Len(jobs) : jobs[i].st = "settle")
          => /\ recording'.session = recording.session
             /\ recording'.frames >= recording.frames]_vars


\* The frames a live source has delivered to the recording by the end of the
\* current second.
LiveRecorded == (now - recording.opened + 1) * FPS

\* C22 as claimed: a trim starts no earlier than the settle delay after its
\* trigger, and on a live source the recording then holds the whole requested
\* window, up to the start offset plus the duration handed to the trim.
C22_TrimWindowRecorded ==
    [][\A i \in 1..Len(jobs) :
          (jobs[i].st = "settle" /\ jobs'[i].st # "settle")
             => /\ now >= jobs[i].ts + SETTLE_SEC
                /\ LiveRecorded >= jobs[i].t1 + CutJobDuration(jobs[i])]_vars


\* cut_ball: the output path of a clip job, named by the wall-clock second of
\* its trigger inside the match's clip directory.
OutputPath(job) == <<"ball_", job.ts, ".mp4">>

\* C23 as claimed: two clip jobs scheduled by distinct accepted triggers of
\* one engine never write the same output path.
C23_OutputPathsDistinct ==
    \A i, j \in 1..Len(jobs) :
        i # j => OutputPath(jobs[i]) # OutputPath(jobs[j])


C24_CleanupSparesOtherStreams ==
    [][\A p, q \in DOMAIN procs :
          (p # q /\ procs[p].st = "startup" /\ procs'[p].st = "launch")
             => /\ procs'[q].transport = procs[q].transport
                /\ procs'[q].clips = procs[q].clips]_vars

\* The engine processes of match m that are alive.
EnginesAlive(m) ==
    {p \in DOMAIN procs : procs[p].match = m /\ procs[p].st # "dead"}

\* C26 as claimed: at most one engine started through the API is alive for a
\* match name, and start_stream has answered "already running" for a match
\* only with an engine of that match alive.
C26_AlreadyRunningMeansRunning ==
    /\ \A m \in Matches : Cardinality(EnginesAlive(m)) <= 1
    /\ (answer.op = "start" /\ answer.status = "already running")
          => EnginesAlive(answer.match) # {}


\* C27 as claimed: a pass of the worker's main loop that took a job file has
\* removed it from the queue, whatever became of its processing, so that the
\* next pass takes the job behind it.
C27_TakenJobRemoved ==
    wlast.outcome \in {"ok", "failed", "no source", "raised"}
       => \A j \in queue : JobName(j) # wlast.job

\* The names of the temporary files process_video makes at second ts.
TmpNames(ts) == {<<"tmp_logo", ts>>, <<"tmp_intro", ts>>, <<"tmp_outro", ts>>}

\* C28 as claimed: when process_video has returned from its pipeline, none
\* of the temporary files of the job is left, a failed step has left an error
\* record of the file name and a success has left none.
C28_NoTempFilesLeft ==
    wlast.outcome \in {"ok", "failed"}
       => /\ TmpNames(wlast.ts) \cap tmp_files = {}
          /\ wlast.outcome = "failed" => wlast.job[2] \in errors
          /\ wlast.outcome = "ok" => wlast.job[2] \notin errors

====
